---- MODULE Spec2Model ----
(***************************************************************************)
(* Model of the scoring and multi-stage filtering pipeline of              *)
(* app_advanced.py (clean_numeric_column is the same in app.py).           *)
(*                                                                         *)
(* Values.  A CSV cell is a sequence of one-character strings; the empty   *)
(* sequence is a missing field (read_csv yields NaN for it).  A Python     *)
(* optional / pandas nullable value is a sequence of length at most one:   *)
(* << >> is None or NaN, <<x>> is the value x.  Numbers are decimal fixed  *)
(* point, counted in units of 1/200, so that the mean of the two middle    *)
(* values of a column with two fraction digits is exact.                   *)
(***************************************************************************)
EXTENDS Integers, Sequences, FiniteSets, TLC

\* ------------------------------------------------------------ bounds
\* Largest number of rows of the raw dataset when every field is present.
MaxRows == 3
\* Largest number of rows of the raw dataset when one field is absent.
MaxRowsPartial == 2

\* ------------------------------------------------------------ values
None == << >>
Some(x) == <<x>>
IsNone(o) == o = << >>
Val(o) == o[1]

\* One unit of the CSV text (1 = 200/200).
Unit == 100 + 100

Digits == {"0", "1", "2", "3", "4", "5", "6", "7", "8", "9"}

DigitVal ==
    [c \in Digits |->
        CASE c = "0" -> 0 [] c = "1" -> 1 [] c = "2" -> 2 [] c = "3" -> 3
          [] c = "4" -> 4 [] c = "5" -> 5 [] c = "6" -> 6 [] c = "7" -> 7
          [] c = "8" -> 8 [] c = "9" -> 9]

\* ------------------------------------------------- clean_numeric_column
\* Series.astype(str): a missing field becomes the text "nan".
AsTypeStr(cell) == IF cell = << >> THEN <<"n", "a", "n">> ELSE cell

\* .str.replace('%', '').str.replace('$', '').str.replace(',', ''): every
\* occurrence of the three symbols is removed.
Symbols == {"%", "$", ","}
StrReplace(s) == SelectSeq(s, LAMBDA c : c \notin Symbols)

\* The first and the last position of s that hold no whitespace (from lo up,
\* from hi down).
RECURSIVE FirstText(_, _)
FirstText(s, lo) == IF lo <= Len(s) /\ s[lo] = " " THEN FirstText(s, lo + 1) ELSE lo

RECURSIVE LastText(_, _)
LastText(s, hi) == IF hi >= 1 /\ s[hi] = " " THEN LastText(s, hi - 1) ELSE hi

\* str.strip(): leading and trailing whitespace removed.
StrStrip(s) == SubSeq(s, FirstText(s, 1), LastText(s, Len(s)))

\* A decimal text with nfrac fraction digits and digit string value acc, in
\* units of 1/200 (fraction digits past the second are below the resolution).
RECURSIVE Scaled(_, _)
Scaled(acc, nfrac) ==
    IF nfrac <= 0 THEN acc * Unit
    ELSE IF nfrac = 1 THEN acc * 20
    ELSE IF nfrac = 2 THEN acc * 2
    ELSE Scaled(acc \div 10, nfrac - 1)

\* An unsigned decimal text s[i..], read left to right: digits with at most
\* one point and at least one digit; acc is the value of the digits read, nd
\* their number, nfrac the number read after the point (-1 before it).
RECURSIVE UnsignedNumeric(_, _, _, _, _)
UnsignedNumeric(s, i, acc, nfrac, nd) ==
    IF i > Len(s) THEN (IF nd = 0 THEN None ELSE Some(Scaled(acc, nfrac)))
    ELSE IF s[i] \in Digits THEN
        UnsignedNumeric(s, i + 1, 10 * acc + DigitVal[s[i]],
                        IF nfrac < 0 THEN nfrac ELSE nfrac + 1, nd + 1)
    ELSE IF s[i] = "." /\ nfrac < 0 THEN UnsignedNumeric(s, i + 1, acc, 0, nd)
    ELSE None

\* pd.to_numeric(text, errors='coerce'): a decimal number with an optional
\* sign; anything else (the empty text and "nan" included) is NaN.
ToNumeric(s) ==
    IF s = << >> THEN None
    ELSE IF s[1] = "-" THEN
        LET u == UnsignedNumeric(s, 2, 0, -1, 0)
        IN  IF IsNone(u) THEN None ELSE Some(0 - Val(u))
    ELSE IF s[1] = "+" THEN UnsignedNumeric(s, 2, 0, -1, 0)
    ELSE UnsignedNumeric(s, 1, 0, -1, 0)

\* The text of one cell with '%', '$' and ',' removed, then stripped.
CleanText(cell) == StrStrip(StrReplace(AsTypeStr(cell)))

\* clean_numeric_column(series).  series.dtype == 'object' holds as soon as
\* read_csv found a field of the column that is not a plain number; a column
\* of plain numbers (and empty fields) is numeric already and is returned as
\* parsed.
clean_numeric_column(col) ==
    LET plain == [i \in 1..Len(col) |-> ToNumeric(col[i])]
    IN  IF \E i \in 1..Len(col) : col[i] # << >> /\ IsNone(plain[i])
        THEN [i \in 1..Len(col) |-> ToNumeric(CleanText(col[i]))]
        ELSE plain

\* ------------------------------------------------------------ median
RECURSIVE Insert(_, _)
Insert(x, s) ==
    IF s = << >> THEN <<x>>
    ELSE IF x <= Head(s) THEN <<x>> \o s
    ELSE <<Head(s)>> \o Insert(x, Tail(s))

RECURSIVE SortAsc(_)
SortAsc(s) == IF s = << >> THEN << >> ELSE Insert(Head(s), SortAsc(Tail(s)))

\* Series.dropna(): the valid values of a cleaned column, in row order.
DropNa(cleaned) ==
    LET valid == SelectSeq(cleaned, LAMBDA o : ~IsNone(o))
    IN  [i \in 1..Len(valid) |-> Val(valid[i])]

\* Series.median() of a non-empty column without NaN: the middle value of
\* the ascending sort, the mean of the two middle values for an even count.
Median(valid) ==
    LET srt == SortAsc(valid)
        n == Len(srt)
    IN  IF n % 2 = 1 THEN srt[(n + 1) \div 2]
        ELSE (srt[n \div 2] + srt[n \div 2 + 1]) \div 2

\* ------------------------------------------------------ calculate_score
\* Variant: a metric entered twice in the table.
ScoreMetricsRepeated == <<"ctr", "cvr", "retention", "cpm", "ctr">>

\* The metrics table of calculate_score: key -> direction.
ScoreMetrics == <<"ctr", "cvr", "retention", "cpm">>

Direction(key) == IF key = "cpm" THEN "lower" ELSE "higher"

\* The keys whose median is computed (the four metrics, then CPI).
MedianKeys == {"ctr", "cvr", "retention", "cpm", "cpi"}

Column(rows, key) == [i \in 1..Len(rows) |-> rows[i][key]]

\* medians[key]: None when the column is absent or has no valid value.
MedianOf(rows, columns, key) ==
    IF key \in columns
    THEN LET valid_data == DropNa(clean_numeric_column(Column(rows, key)))
         IN  IF Len(valid_data) > 0 THEN Some(Median(valid_data)) ELSE None
    ELSE None

CalcMedians(rows, columns) == [key \in MedianKeys |-> MedianOf(rows, columns, key)]

\* Variant: non-strict comparisons (>=, <=).
PointNonStrict(direction, cleaned, median) ==
    IF IsNone(cleaned) THEN 0
    ELSE IF direction = "higher"
         THEN (IF Val(cleaned) >= median THEN 1 ELSE 0)
         ELSE (IF Val(cleaned) <= median THEN 1 ELSE 0)

\* (cleaned > median).astype(int) / (cleaned < median).astype(int) for one
\* cell: a comparison with NaN is False.
Point(direction, cleaned, median) ==
    IF IsNone(cleaned) THEN 0
    ELSE IF direction = "higher"
         THEN (IF Val(cleaned) > median THEN 1 ELSE 0)
         ELSE (IF Val(cleaned) < median THEN 1 ELSE 0)

\* The column one metric adds to scores: nothing when the column is absent
\* or its median is None.
MetricPoints(rows, columns, medians, key) ==
    IF key \in columns /\ ~IsNone(medians[key])
    THEN LET cleaned == clean_numeric_column(Column(rows, key))
         IN  [i \in 1..Len(rows) |->
                 Point(Direction(key), cleaned[i], Val(medians[key]))]
    ELSE [i \in 1..Len(rows) |-> 0]

\* scores = pd.Series(0, index=...); scores += ... for each metric in turn.
RECURSIVE SumPoints(_, _, _, _)
SumPoints(rows, columns, medians, keys) ==
    IF keys = << >> THEN [i \in 1..Len(rows) |-> 0]
    ELSE LET rest == SumPoints(rows, columns, medians, SubSeq(keys, 1, Len(keys) - 1))
             add == MetricPoints(rows, columns, medians, keys[Len(keys)])
         IN  [i \in 1..Len(rows) |-> rest[i] + add[i]]

\* calculate_score(df_filtered, col_map) -> (scores, medians)
calculate_score(rows, columns) ==
    LET medians == CalcMedians(rows, columns)
    IN  [scores |-> SumPoints(rows, columns, medians, ScoreMetrics),
         medians |-> medians]

\* --------------------------------------------------------------- state
VARIABLES
    df,                        \* the raw dataset: a sequence of rows
    columns,                   \* df.columns: the logical fields present
    missing_fields,            \* the fields reported absent
    sel_date, sel_country,     \* multiselect values, None without the field
    max_install, min_install,  \* number_input bound and value (install)
    max_cpi, min_cpi,          \* number_input bound and value (CPI)
    max_score, min_score,      \* slider bound and value
    df_date_country_filtered,  \* Stage 1: rows [idx, score]
    medians,                   \* the Benchmark ({} when Stage 1 is empty)
    df_base_filtered,          \* Stage 2: rows [idx, score]
    df_final,                  \* rows [idx, score]
    ratio,                     \* the score-filter ratio, None if not shown
    warnings,                  \* sidebar / page notices of the last run
    error,                     \* the exception that ended the last run
    calc_calls                 \* calls of calculate_score in the last run

vars == <<df, columns, missing_fields, sel_date, sel_country, max_install,
          min_install, max_cpi, min_cpi, max_score, min_score,
          df_date_country_filtered, medians, df_base_filtered, df_final,
          ratio, warnings, error, calc_calls>>

\* col_map restricted to the fields the pipeline reads.
Fields == {"date", "country", "install", "cpi", "ctr", "cvr", "retention", "cpm"}

\* Fallback bounds of the number inputs when no value is valid.
DefaultMaxInstall == 1000
DefaultMaxCpi == 10 * Unit
\* max_score when the scored dataset is empty.
DefaultMaxScore == 4

\* --------------------------------------------------------- the pipeline
RECURSIVE MaxOf(_)
MaxOf(s) ==
    IF Len(s) = 1 THEN s[1]
    ELSE LET m == MaxOf(Tail(s)) IN IF Head(s) >= m THEN Head(s) ELSE m

\* sorted(df[col].dropna().unique().tolist()), as a set.
Options(data, key) == {data[i][key] : i \in 1..Len(data)} \ {""}

\* Variant: a predicate on an absent field rejects every row.
IsInAbsentRejects(cols, sel, key, row) ==
    IF ~IsNone(sel) /\ key \in cols THEN row[key] \in Val(sel) ELSE FALSE

\* One conjunct of query_date_country: applied when the field exists.
IsIn(cols, sel, key, row) ==
    IF ~IsNone(sel) /\ key \in cols THEN row[key] \in Val(sel) ELSE TRUE

\* The row positions of df[query_date_country], in order.
Stage1Idx(data, cols, selD, selC) ==
    SelectSeq([i \in 1..Len(data) |-> i],
              LAMBDA i : IsIn(cols, selD, "date", data[i])
                         /\ IsIn(cols, selC, "country", data[i]))

\* install_series >= min_install for one cell; NaN compares False.
PassInstall(cleaned, minInstall) ==
    ~IsNone(cleaned) /\ Val(cleaned) >= minInstall * Unit

\* Variant: a NaN CPI passes the predicate (fillna before comparing).
PassCpiKeepsNaN(cleaned, maxCpi) == IsNone(cleaned) \/ Val(cleaned) <= maxCpi

\* cpi_series <= min_cpi for one cell; NaN compares False.
PassCpi(cleaned, maxCpi) == ~IsNone(cleaned) /\ Val(cleaned) <= maxCpi

\* A number_input / slider keeps its value between runs only while it is the
\* same widget (same bounds); otherwise it starts from its default.
WidgetValue(prevBound, prevValue, bound, default) ==
    IF ~IsNone(prevValue) /\ prevBound = Some(bound) THEN Val(prevValue) ELSE default

\* Variant: calculate_score called on the Stage-2 rows.
ScoreSnapshotStage2(pos1, keep) == keep

\* The rows handed to calculate_score, as positions of the Stage-1 dataset:
\* calculate_score(df_date_country_filtered, col_map) takes them all.
ScoreSnapshot(pos1, keep) == pos1

\* df_date_country_filtered['score'] = scores: assignment aligns on the row
\* index, a row without an entry in scores gets NaN.
ScoreColumn(snap, scores, k) ==
    LET at == {j \in 1..Len(snap) : snap[j] = k}
    IN  IF at = {} THEN None ELSE Some(scores[CHOOSE j \in at : TRUE])

\* Variant: calculate_score called without the len() > 0 guard.
CalcCallsUnguarded(nStage1) == 1

\* calculate_score is called once when Stage 1 has rows, else not at all.
CalcCalls(nStage1) == IF nStage1 > 0 THEN 1 ELSE 0

\* Variant: the ratio guarded by the size of the Stage-1 dataset.
RatioGuardStage1(nStage1, nBase) == nStage1 > 0

\* The guard of the ratio metric (line 254).
RatioGuard(nStage1, nBase) == nBase > 0

\* Variant: the slider always ranges to 4.
SliderMaxFixed(base) == DefaultMaxScore

\* int(df_base_filtered['score'].max()) if len(df_base_filtered) > 0 else 4
\* (Series.max() skips NaN).
SliderMax(base) ==
    LET valid == DropNa([k \in 1..Len(base) |-> base[k].score])
    IN  IF Len(base) > 0 /\ Len(valid) > 0 THEN MaxOf(valid) ELSE DefaultMaxScore

\* Variant: the kept rows listed best score first (sort_values descending).
ScoreFilterSorted(base, minScore) ==
    LET kept == SelectSeq(base, LAMBDA r : ~IsNone(r.score) /\ Val(r.score) >= minScore)
        rank(k) == Cardinality({j \in 1..Len(kept) :
                        \/ Val(kept[j].score) > Val(kept[k].score)
                        \/ Val(kept[j].score) = Val(kept[k].score) /\ j <= k})
    IN  [n \in 1..Len(kept) |-> kept[CHOOSE k \in 1..Len(kept) : rank(k) = n]]

\* Variant: strict comparison with min_score.
ScoreFilterStrict(base, minScore) ==
    SelectSeq(base, LAMBDA r : ~IsNone(r.score) /\ Val(r.score) > minScore)

\* df_base_filtered[df_base_filtered['score'] >= min_score]
ScoreFilter(base, minScore) ==
    SelectSeq(base, LAMBDA r : ~IsNone(r.score) /\ Val(r.score) >= minScore)

\* The two number inputs over the Stage-1 rows (lines 168-198): the cleaned
\* columns, the bounds and the values the widgets return.
Thresholds(rows1) ==
    LET install_series == clean_numeric_column(Column(rows1, "install"))
        cpi_series == clean_numeric_column(Column(rows1, "cpi"))
    IN  [install_series |-> install_series,
         cpi_series |-> cpi_series,
         max_install |-> IF Len(DropNa(install_series)) > 0
                         THEN MaxOf(DropNa(install_series)) \div Unit
                         ELSE DefaultMaxInstall,
         max_cpi |-> IF Len(DropNa(cpi_series)) > 0
                     THEN MaxOf(DropNa(cpi_series)) ELSE DefaultMaxCpi]

\* query_base (lines 202-210): the positions of the Stage-1 rows that pass
\* the install and CPI predicates, each applied when its field exists.
QueryBase(n1, cols, th, minInstall, minCpi) ==
    SelectSeq([k \in 1..n1 |-> k],
        LAMBDA k : /\ "install" \in cols => PassInstall(th.install_series[k], minInstall)
                   /\ "cpi" \in cols => PassCpi(th.cpi_series[k], minCpi))

\* Lines 160-166: the Stage-1 dataset with its score column, and the medians
\* ({} when Stage 1 is empty).
Scoring(rows1, idx1, cols, snap) ==
    LET cs == calculate_score([j \in 1..Len(snap) |-> rows1[snap[j]]], cols)
    IN  [stage1 |-> [k \in 1..Len(idx1) |->
                        [idx |-> idx1[k], score |-> ScoreColumn(snap, cs.scores, k)]],
         medians |-> IF Len(idx1) > 0 THEN cs.medians ELSE [k \in {} |-> None]]

\* Lines 215-246: the slider and the final dataset.
Projection(base, n1, prev) ==
    LET scored == Len(base) > 0 /\ n1 > 0
        maxScore == SliderMax(base)
        minScore == IF maxScore = 0 THEN 0
                    ELSE WidgetValue(prev.max_score, prev.min_score, maxScore, 0)
    IN  [scored |-> scored,
         max_score |-> IF scored THEN Some(maxScore) ELSE None,
         min_score |-> IF scored THEN Some(minScore) ELSE None,
         df_final |-> IF scored THEN ScoreFilter(base, minScore) ELSE << >>,
         all_zero |-> scored /\ maxScore = 0]

\* The notices of one run.
Warnings(cols, n1, scored, allZero, nFinal) ==
    (IF Fields \ cols # {} THEN {"missing_fields"} ELSE {})
    \cup (IF "date" \in cols THEN {} ELSE {"no_date_field"})
    \cup (IF "country" \in cols THEN {} ELSE {"no_country_field"})
    \cup (IF n1 > 0 THEN {} ELSE {"stage1_empty"})
    \cup (IF "install" \in cols THEN {} ELSE {"no_install_field"})
    \cup (IF "cpi" \in cols THEN {} ELSE {"no_cpi_field"})
    \cup (IF allZero THEN {"all_scores_zero"} ELSE {})
    \cup (IF ~scored /\ n1 = 0 THEN {"stage1_empty_no_score"} ELSE {})
    \cup (IF ~scored /\ n1 # 0 THEN {"stage2_empty"} ELSE {})
    \cup (IF nFinal > 0 THEN {} ELSE {"final_empty"})

\* Lines 250-255: the ratio metric, shown under its guard; dividing by an
\* empty Stage-2 dataset raises ZeroDivisionError.
Overview(n1, nBase, nFinal) ==
    [ratio |-> IF RatioGuard(n1, nBase) /\ nBase > 0
               THEN Some((nFinal * 1000) \div nBase) ELSE None,
     error |-> IF RatioGuard(n1, nBase) /\ nBase = 0
               THEN Some("ZeroDivisionError") ELSE None]

\* The outputs of one run, from its stages.
Outputs(cols, selD, selC, n1, th, minInstall, minCpi, sc, base, pr) ==
    [sel_date |-> selD,
     sel_country |-> selC,
     max_install |-> IF "install" \in cols THEN Some(th.max_install) ELSE None,
     min_install |-> IF "install" \in cols THEN Some(minInstall) ELSE None,
     max_cpi |-> IF "cpi" \in cols THEN Some(th.max_cpi) ELSE None,
     min_cpi |-> IF "cpi" \in cols THEN Some(minCpi) ELSE None,
     max_score |-> pr.max_score,
     min_score |-> pr.min_score,
     df_date_country_filtered |-> sc.stage1,
     medians |-> sc.medians,
     df_base_filtered |-> base,
     df_final |-> pr.df_final,
     ratio |-> Overview(n1, Len(base), Len(pr.df_final)).ratio,
     warnings |-> Warnings(cols, n1, pr.scored, pr.all_zero, Len(pr.df_final)),
     error |-> Overview(n1, Len(base), Len(pr.df_final)).error,
     calc_calls |-> CalcCalls(n1)]

\* Stage 2 and what follows it, given the Stage-1 rows and the thresholds.
AfterThresholds(cols, selD, selC, prev, idx1, rows1, th, minInstall, minCpi) ==
    LET keep == QueryBase(Len(idx1), cols, th, minInstall, minCpi)
        sc == Scoring(rows1, idx1, cols,
                      ScoreSnapshot([k \in 1..Len(idx1) |-> k], keep))
        base == [j \in 1..Len(keep) |-> sc.stage1[keep[j]]]
    IN  Outputs(cols, selD, selC, Len(idx1), th, minInstall, minCpi, sc, base,
                Projection(base, Len(idx1), prev))

\* The number inputs and what follows them, given the Stage-1 rows.
AfterStage1(cols, selD, selC, prev, idx1, rows1) ==
    LET th == Thresholds(rows1)
    IN  AfterThresholds(cols, selD, selC, prev, idx1, rows1, th,
            WidgetValue(prev.max_install, prev.min_install, th.max_install, 0),
            WidgetValue(prev.max_cpi, prev.min_cpi, th.max_cpi, th.max_cpi))

\* One run of the script: selD, selC are the multiselect values, prev the
\* state of the other widgets as the user left them.
Pipeline(data, cols, selD, selC, prev) ==
    LET idx1 == Stage1Idx(data, cols, selD, selC)
    IN  AfterStage1(cols, selD, selC, prev, idx1,
                    [k \in 1..Len(idx1) |-> data[idx1[k]]])

\* -------------------------------------------------------------- inputs
\* Rows the raw dataset is drawn from: the three rows of the end-to-end
\* scenario, a row with unparseable and missing fields, and a row that beats
\* the others on every metric.
Row1 == [date |-> "d1", country |-> "US",
         install |-> <<"1", "0">>, cpi |-> <<"$", "1", ".", "0", "0">>,
         ctr |-> <<"5", "%">>, cvr |-> <<"2", "%">>,
         retention |-> <<"3", "0", "%">>, cpm |-> <<"$", "1", ".", "0", "0">>]
Row2 == [date |-> "d1", country |-> "JP",
         install |-> <<"1", ",", "0", "0", "0">>, cpi |-> <<"$", "2", ".", "5", "0">>,
         ctr |-> <<"1", "0", "%">>, cvr |-> <<"1", "%">>,
         retention |-> <<"4", "0", "%">>, cpm |-> <<"$", "2", ".", "0", "0">>]
Row3 == [date |-> "d2", country |-> "US",
         install |-> <<"-">>, cpi |-> <<"$", "0", ".", "5", "0">>,
         ctr |-> <<"1", "%">>, cvr |-> <<"3", "%">>,
         retention |-> <<"2", "0", "%">>, cpm |-> <<"$", "0", ".", "5", "0">>]
Row4 == [date |-> "d2", country |-> "JP",
         install |-> <<"5">>, cpi |-> << >>,
         ctr |-> <<"-">>, cvr |-> << >>,
         retention |-> <<" ", "3", "0", " ", "%">>, cpm |-> <<"a", "b", "c">>]
Row5 == [date |-> "d1", country |-> "US",
         install |-> <<"2", "0">>, cpi |-> <<"$", "0", ".", "4">>,
         ctr |-> <<"1", "2", ".", "5", "%">>, cvr |-> <<"4", "%">>,
         retention |-> <<"4", "5", "%">>, cpm |-> <<".", "2", "5">>]

RowPool == <<Row1, Row2, Row3, Row4, Row5>>

\* The raw datasets of at most n rows: sub-lists of the pool, in pool order.
Datasets(n) ==
    LET picks == {p \in UNION {[1..k -> 1..Len(RowPool)] : k \in 0..n} :
                     \A i, j \in 1..Len(p) : i < j => p[i] < p[j]}
    IN  {[i \in 1..Len(p) |-> RowPool[p[i]]] : p \in picks}

\* The schemas with one of the fields absent.
PartialSchemas == {Fields \ {f} : f \in Fields}

\* ------------------------------------------------------- specification
\* The widget state before the first run: nothing entered yet.
NoWidgets ==
    [max_install |-> None, min_install |-> None, max_cpi |-> None,
     min_cpi |-> None, max_score |-> None, min_score |-> None]

Widgets ==
    [max_install |-> max_install, min_install |-> min_install,
     max_cpi |-> max_cpi, min_cpi |-> min_cpi,
     max_score |-> max_score, min_score |-> min_score]

\* The multiselect default: every option selected; None without the field.
DefaultSel(data, cols, key) == IF key \in cols THEN Some(Options(data, key)) ELSE None

Init ==
    /\ \/ df \in Datasets(MaxRows) /\ columns = Fields
       \/ df \in Datasets(MaxRowsPartial) /\ columns \in PartialSchemas
    /\ missing_fields = Fields \ columns
    /\ \E r \in {Pipeline(df, columns, DefaultSel(df, columns, "date"),
                          DefaultSel(df, columns, "country"), NoWidgets)} :
           /\ sel_date = r.sel_date
           /\ sel_country = r.sel_country
           /\ max_install = r.max_install
           /\ min_install = r.min_install
           /\ max_cpi = r.max_cpi
           /\ min_cpi = r.min_cpi
           /\ max_score = r.max_score
           /\ min_score = r.min_score
           /\ df_date_country_filtered = r.df_date_country_filtered
           /\ medians = r.medians
           /\ df_base_filtered = r.df_base_filtered
           /\ df_final = r.df_final
           /\ ratio = r.ratio
           /\ warnings = r.warnings
           /\ error = r.error
           /\ calc_calls = r.calc_calls

\* The script reruns from the top with the widget values as given.
Rerun(selD, selC, prev) ==
    \E r \in {Pipeline(df, columns, selD, selC, prev)} :
        /\ sel_date' = r.sel_date
        /\ sel_country' = r.sel_country
        /\ max_install' = r.max_install
        /\ min_install' = r.min_install
        /\ max_cpi' = r.max_cpi
        /\ min_cpi' = r.min_cpi
        /\ max_score' = r.max_score
        /\ min_score' = r.min_score
        /\ df_date_country_filtered' = r.df_date_country_filtered
        /\ medians' = r.medians
        /\ df_base_filtered' = r.df_base_filtered
        /\ df_final' = r.df_final
        /\ ratio' = r.ratio
        /\ warnings' = r.warnings
        /\ error' = r.error
        /\ calc_calls' = r.calc_calls
        /\ UNCHANGED <<df, columns, missing_fields>>

\* The rows of the current Stage-1 dataset.
Stage1Rows == [k \in 1..Len(df_date_country_filtered) |->
                  df[df_date_country_filtered[k].idx]]

\* The user changes the date multiselect.
ChangeDate ==
    /\ ~IsNone(sel_date)
    /\ \E S \in SUBSET Options(df, "date") :
          /\ S # Val(sel_date)
          /\ Rerun(Some(S), sel_country, Widgets)

\* The user changes the country multiselect.
ChangeCountry ==
    /\ ~IsNone(sel_country)
    /\ \E S \in SUBSET Options(df, "country") :
          /\ S # Val(sel_country)
          /\ Rerun(sel_date, Some(S), Widgets)

\* Values the user enters as minimum install: 0, the bound, and the install
\* counts present in the snapshot (whole numbers within [0, max_install]).
InstallChoices ==
    LET valid == DropNa(clean_numeric_column(Column(Stage1Rows, "install")))
    IN  {n \in {0, Val(max_install)} \cup {valid[i] \div Unit : i \in 1..Len(valid)} :
            0 <= n /\ n <= Val(max_install)}

ChangeMinInstall ==
    /\ ~IsNone(min_install)
    /\ \E n \in InstallChoices :
          /\ n # Val(min_install)
          /\ Rerun(sel_date, sel_country,
                   [Widgets EXCEPT !.min_install = Some(n)])

\* Values the user enters as maximum CPI: 0.00, the bound, and the CPI values
\* present in the snapshot (within [0.0, max_cpi]).
CpiChoices ==
    LET valid == DropNa(clean_numeric_column(Column(Stage1Rows, "cpi")))
    IN  {x \in {0, Val(max_cpi)} \cup {valid[i] : i \in 1..Len(valid)} :
            0 <= x /\ x <= Val(max_cpi)}

ChangeMaxCpi ==
    /\ ~IsNone(min_cpi)
    /\ \E x \in CpiChoices :
          /\ x # Val(min_cpi)
          /\ Rerun(sel_date, sel_country,
                   [Widgets EXCEPT !.min_cpi = Some(x)])

\* The user moves the minimum-score slider (shown only when max_score > 0).
ChangeMinScore ==
    /\ ~IsNone(max_score)
    /\ Val(max_score) > 0
    /\ \E k \in 0..Val(max_score) :
          /\ k # Val(min_score)
          /\ Rerun(sel_date, sel_country,
                   [Widgets EXCEPT !.min_score = Some(k)])

Next ==
    \/ ChangeDate
    \/ ChangeCountry
    \/ ChangeMinInstall
    \/ ChangeMaxCpi
    \/ ChangeMinScore

Spec == Init /\ [][Next]_vars

\* ------------------------------------------------------------- claims
\* The scoring rules of the specification.
RuleKeys == {"ctr", "cvr", "retention", "cpm"}

\* normalize(value) of the specification for row i of df: symbols removed,
\* trimmed, parsed, Missing when that fails.
Normalized(i, key) == ToNumeric(CleanText(df[i][key]))

Ids(ds) == {ds[k].idx : k \in 1..Len(ds)}

Increasing(ds) == \A j, k \in 1..Len(ds) : j < k => ds[j].idx < ds[k].idx

\* Every row of c is a row of p, score included.
RowsOf(c, p) == \A k \in 1..Len(c) : \E j \in 1..Len(p) : p[j] = c[k]

\* The benchmark of a metric is available.
Available(key) == key \in columns /\ DOMAIN medians # {} /\ ~IsNone(medians[key])

\* Row i satisfies the rule of a metric strictly.
Satisfies(i, key) ==
    /\ Available(key)
    /\ ~IsNone(Normalized(i, key))
    /\ IF key = "cpm" THEN Val(Normalized(i, key)) < Val(medians[key])
                      ELSE Val(Normalized(i, key)) > Val(medians[key])

Scenario == <<Row1, Row2, Row3>>

C3_FilterMonotone ==
    /\ Ids(df_date_country_filtered) \subseteq 1..Len(df)
    /\ Increasing(df_date_country_filtered)
    /\ RowsOf(df_base_filtered, df_date_country_filtered)
    /\ Increasing(df_base_filtered)
    /\ RowsOf(df_final, df_base_filtered)
    /\ Increasing(df_final)

\* Each of the first two stages dropped a row and the final dataset has a row.
C3_Witness ==
    /\ Len(df_date_country_filtered) < Len(df)
    /\ Len(df_base_filtered) < Len(df_date_country_filtered)
    /\ Len(df_final) >= 1

\* C4: the score of every Stage-1 row is a number between 0 and the number of
\* rules whose column is present and whose median is available, so at most 4.
C4_ScoreBounded ==
    \A k \in 1..Len(df_date_country_filtered) :
        LET score == df_date_country_filtered[k].score
        IN  /\ ~IsNone(score)
            /\ Val(score) \in 0..Cardinality({key \in RuleKeys : Available(key)})
            /\ Val(score) <= 4

\* Fewer than four rules are available and a row reaches the bound.
C4_Witness ==
    /\ Cardinality({key \in RuleKeys : Available(key)}) \in 1..3
    /\ \E k \in 1..Len(df_date_country_filtered) :
          df_date_country_filtered[k].score =
              Some(Cardinality({key \in RuleKeys : Available(key)}))

\* C5: the score of every Stage-1 row is the number of rules it satisfies
\* strictly (CPI is no rule), and the scenario of the specification has the
\* medians 5, 2, 30, 1.00 and the scores 0, 2, 2.
C5_StrictRules ==
    /\ \A k \in 1..Len(df_date_country_filtered) :
          df_date_country_filtered[k].score =
              Some(Cardinality({key \in RuleKeys :
                      Satisfies(df_date_country_filtered[k].idx, key)}))
    /\ (df = Scenario /\ columns = Fields /\ Len(df_date_country_filtered) = 3) =>
          /\ medians["ctr"] = Some(5 * Unit)
          /\ medians["cvr"] = Some(2 * Unit)
          /\ medians["retention"] = Some(30 * Unit)
          /\ medians["cpm"] = Some(1 * Unit)
          /\ [k \in 1..3 |-> df_date_country_filtered[k].score]
                = <<Some(0), Some(2), Some(2)>>

\* The whole scenario is the Stage-1 dataset.
C5_Witness ==
    df = Scenario /\ columns = Fields /\ Len(df_date_country_filtered) = 3

\* C6: a Stage-1 row whose install or CPI normalizes to Missing is no row of
\* the Stage-2 dataset when the field exists.
C6_MissingExcluded ==
    \A k \in 1..Len(df_date_country_filtered) :
        LET i == df_date_country_filtered[k].idx
        IN  /\ ("install" \in columns /\ IsNone(Normalized(i, "install")))
                  => i \notin Ids(df_base_filtered)
            /\ ("cpi" \in columns /\ IsNone(Normalized(i, "cpi")))
                  => i \notin Ids(df_base_filtered)

\* At the default thresholds a row with a Missing CPI is dropped and another
\* row is kept.
C6_Witness ==
    /\ min_install = Some(0)
    /\ ~IsNone(min_cpi) /\ min_cpi = max_cpi
    /\ Len(df_base_filtered) > 0
    /\ \E k \in 1..Len(df_date_country_filtered) :
          IsNone(Normalized(df_date_country_filtered[k].idx, "cpi"))

\* C7: a run whose Stage-1 dataset is empty ends without an exception, with
\* no median, empty Stage-2 and final datasets, and no ratio; no run divides
\* by the size of an empty Stage-2 dataset.
C7_EmptyStage1 ==
    /\ IsNone(error)
    /\ ~IsNone(ratio) => Len(df_base_filtered) > 0
    /\ Len(df_date_country_filtered) = 0 =>
          /\ DOMAIN medians = {}
          /\ Len(df_base_filtered) = 0
          /\ Len(df_final) = 0
          /\ IsNone(ratio)

\* The user's selection leaves no row of a non-empty dataset.
C7_Witness == Len(df) > 0 /\ Len(df_date_country_filtered) = 0

\* C8: when the Stage-2 dataset has rows and all their scores are 0, the
\* minimum score is 0 with no slider to change it, the notice is shown, no
\* exception is raised and the final dataset is the Stage-2 dataset.
C8_AllZero ==
    (/\ Len(df_base_filtered) > 0
     /\ \A k \in 1..Len(df_base_filtered) : df_base_filtered[k].score = Some(0))
    => /\ min_score = Some(0)
       /\ max_score = Some(0)
       /\ "all_scores_zero" \in warnings
       /\ IsNone(error)
       /\ df_final = df_base_filtered

\* Two rows, both with score 0.
C8_Witness ==
    /\ Len(df_base_filtered) = 2
    /\ \A k \in 1..Len(df_base_filtered) : df_base_filtered[k].score = Some(0)

\* C9: an absent date, country, install or CPI field is not filtered on and is
\* reported; an absent metric has no median and adds no point; no exception.
C9_AbsentField ==
    /\ IsNone(error)
    /\ missing_fields # {} => "missing_fields" \in warnings
    /\ "date" \notin columns =>
          /\ "no_date_field" \in warnings
          /\ \A i \in 1..Len(df) :
                i \in Ids(df_date_country_filtered)
                    <=> ("country" \in columns => df[i].country \in Val(sel_country))
    /\ "country" \notin columns =>
          /\ "no_country_field" \in warnings
          /\ \A i \in 1..Len(df) :
                i \in Ids(df_date_country_filtered)
                    <=> ("date" \in columns => df[i].date \in Val(sel_date))
    /\ "install" \notin columns =>
          /\ "no_install_field" \in warnings
          /\ \A i \in Ids(df_date_country_filtered) :
                i \in Ids(df_base_filtered)
                    <=> ("cpi" \in columns =>
                            /\ ~IsNone(Normalized(i, "cpi"))
                            /\ Val(Normalized(i, "cpi")) <= Val(min_cpi))
    /\ "cpi" \notin columns =>
          /\ "no_cpi_field" \in warnings
          /\ \A i \in Ids(df_date_country_filtered) :
                i \in Ids(df_base_filtered)
                    <=> ("install" \in columns =>
                            /\ ~IsNone(Normalized(i, "install"))
                            /\ Val(Normalized(i, "install")) >= Val(min_install) * Unit)
    /\ \A key \in RuleKeys \ columns :
          /\ DOMAIN medians # {} => IsNone(medians[key])
          /\ \A k \in 1..Len(df_date_country_filtered) :
                df_date_country_filtered[k].score =
                    Some(Cardinality({other \in RuleKeys \ {key} :
                            Satisfies(df_date_country_filtered[k].idx, other)}))

\* Without the date field, rows of both dates are in the Stage-1 dataset.
C9_Witness ==
    /\ "date" \notin columns
    /\ \E j, k \in Ids(df_date_country_filtered) : df[j].date # df[k].date

\* C10: the slider's bound is the largest score of the Stage-2 dataset, the
\* minimum score lies within it, and the final dataset has a row whenever the
\* Stage-2 dataset has one.
C10_FinalNonEmpty ==
    Len(df_base_filtered) > 0 =>
        /\ \E k \in 1..Len(df_base_filtered) : df_base_filtered[k].score = max_score
        /\ \A k \in 1..Len(df_base_filtered) :
              Val(df_base_filtered[k].score) <= Val(max_score)
        /\ Val(min_score) \in 0..Val(max_score)
        /\ Len(df_final) > 0

\* The user chose the largest minimum score, the Stage-1 dataset has a row
\* with a higher score, and the final dataset still has a row.
C10_Witness ==
    /\ Len(df_final) > 0
    /\ ~IsNone(max_score) /\ Val(max_score) > 0
    /\ min_score = max_score
    /\ \E k \in 1..Len(df_date_country_filtered) :
          Val(df_date_country_filtered[k].score) > Val(max_score)

====
